---- MODULE Spec2Model ----
(***************************************************************************)
(* State-machine model of minitorch/datasets.py: the six 2D point dataset  *)
(* generators (simple, diag, split, xor, circle, spiral), the point        *)
(* sampler make_pts, the Graph record and the `datasets` name registry.    *)
(*                                                                         *)
(* Floats are modelled as exact rationals [num, den] in lowest terms, so   *)
(* comparisons against the literals 0.5, 0.2, 0.8 and 0.1 are exact; IEEE  *)
(* rounding is outside the model.  math.cos / math.sin are not evaluated:  *)
(* the spiral helpers x(t) and y(t) are kept as symbolic terms that record *)
(* which helper was applied, to which parameter t, and the added offset.   *)
(* Python's module-level random source is a deterministic generator with   *)
(* hidden state that advances on every draw; it is modelled by a position  *)
(* in a fixed cyclic stream of tenths, started anywhere.                   *)
(***************************************************************************)
EXTENDS Integers, Sequences, FiniteSets

VARIABLES datasets, rng, prev, last

vars == <<datasets, rng, prev, last>>

(***************************************************************************)
(* Bounds of the model.                                                    *)
(***************************************************************************)
\* Largest count N passed to simple, diag, split, xor and circle.
MaxN == 2
\* Largest count N passed to spiral.
MaxSpiralN == 4
\* Counts range down to -MaxNeg.
MaxNeg == 1

Counts == (0 - MaxNeg)..MaxN

SpiralCounts == (0 - MaxNeg)..MaxSpiralN

(***************************************************************************)
(* Exact rational arithmetic standing in for Python floats.                *)
(***************************************************************************)
Abs(n) == IF n < 0 THEN 0 - n ELSE n

RECURSIVE GCD(_, _)
GCD(a, b) == IF b = 0 THEN a ELSE GCD(b, a % b)

\* The value raised by a float division by zero, carried through arithmetic.
Fault == [num |-> 0, den |-> 0]

IsFault(r) == r.den = 0

\* n/d in lowest terms with a positive denominator (d # 0).
Rat(n, d) ==
    LET g == GCD(Abs(n), Abs(d))
        s == IF d < 0 THEN 0 - 1 ELSE 1
    IN [num |-> (s * n) \div g, den |-> (s * d) \div g]

Float(n) == Rat(n, 1)

FAdd(a, b) ==
    IF IsFault(a) \/ IsFault(b) THEN Fault
    ELSE Rat(a.num * b.den + b.num * a.den, a.den * b.den)

FSub(a, b) ==
    IF IsFault(a) \/ IsFault(b) THEN Fault
    ELSE Rat(a.num * b.den - b.num * a.den, a.den * b.den)

FMul(a, b) ==
    IF IsFault(a) \/ IsFault(b) THEN Fault
    ELSE Rat(a.num * b.num, a.den * b.den)

\* Python float division: ZeroDivisionError when the divisor is zero.
FDiv(a, b) ==
    IF IsFault(a) \/ IsFault(b) \/ b.num = 0 THEN Fault
    ELSE Rat(a.num * b.den, a.den * b.num)

FLess(a, b) == a.num * b.den < b.num * a.den

FGreater(a, b) == FLess(b, a)

(***************************************************************************)
(* Python built-ins used by the module.                                    *)
(***************************************************************************)
\* range(a, b): a, a+1, ..., b-1; empty when b <= a.
range(a, b) == [k \in 1..(IF b > a THEN b - a ELSE 0) |-> a + k - 1]

\* [v] * n: n copies of v; empty when n <= 0.
Repeat(v, n) == [k \in 1..(IF n > 0 THEN n ELSE 0) |-> v]

\* A plausible slip: the half is rounded up.
CeilHalf(N) == (N + 1) \div 2

\* N // 2, floor division.
FloorHalf(N) == N \div 2

(***************************************************************************)
(* The random source.  Its state is a position in a cyclic stream; a draw  *)
(* yields the value at the position and moves one step on.  The stream is  *)
(* of odd length, so calls (which draw in pairs) meet every alignment, and *)
(* its consecutive pairs fall on, inside and outside every boundary of the *)
(* five labelling rules.                                                   *)
(***************************************************************************)
\* Sampled values in tenths.
Stream == <<1, 4, 2, 5, 8, 4, 9, 1, 2, 8, 9>>

Seeds == 0..(Len(Stream) - 1)

\* random.random(): the value drawn and the source's next state.
random(s) ==
    [value |-> Rat(Stream[s + 1], 10), state |-> (s + 1) % Len(Stream)]

(***************************************************************************)
(* make_pts and Graph.                                                     *)
(***************************************************************************)
RECURSIVE make_pts_loop(_, _, _)
make_pts_loop(i, N, acc) ==
    IF i >= N THEN acc
    ELSE LET d1 == random(acc.state)
             d2 == random(d1.state)
             x_1 == d1.value
             x_2 == d2.value
         IN make_pts_loop(i + 1, N,
                [X |-> Append(acc.X, <<x_1, x_2>>),
                 state |-> d2.state,
                 draws |-> acc.draws \o <<x_1, x_2>>])

\* A plausible slip: X lives across calls (a shared, mutable list), so
\* the points of the previous dataset are still in it.
make_pts_shared(N, s) ==
    make_pts_loop(0, N,
        [X |-> IF last.op = "call" /\ last.raised = "none" /\ last.fn # "spiral"
               THEN last.graph.X ELSE <<>>,
         state |-> s, draws |-> <<>>])

\* A plausible slip: x_2 is drawn before x_1.
RECURSIVE make_pts_swapped_loop(_, _, _)
make_pts_swapped_loop(i, N, acc) ==
    IF i >= N THEN acc
    ELSE LET d1 == random(acc.state)
             d2 == random(d1.state)
         IN make_pts_swapped_loop(i + 1, N,
                [X |-> Append(acc.X, <<d2.value, d1.value>>),
                 state |-> d2.state,
                 draws |-> acc.draws \o <<d1.value, d2.value>>])

make_pts_swapped(N, s) ==
    make_pts_swapped_loop(0, N, [X |-> <<>>, state |-> s, draws |-> <<>>])

\* make_pts(N) run from source state s: the points, the source's state
\* afterwards and the values drawn, in order.
make_pts(N, s) ==
    make_pts_loop(0, N, [X |-> <<>>, state |-> s, draws |-> <<>>])

Graph(N, X, y) == [N |-> N, X |-> X, y |-> y]

NoGraph == Graph(0, <<>>, <<>>)

(***************************************************************************)
(* Labelling rules, one per generator.                                     *)
(***************************************************************************)
simple_y1_le(x_1, x_2) == IF ~FGreater(x_1, Rat(5, 10)) THEN 1 ELSE 0

simple_y1(x_1, x_2) == IF FLess(x_1, Rat(5, 10)) THEN 1 ELSE 0

diag_y1(x_1, x_2) == IF FLess(FAdd(x_1, x_2), Rat(5, 10)) THEN 1 ELSE 0

split_y1(x_1, x_2) ==
    IF FLess(x_1, Rat(2, 10)) \/ FGreater(x_1, Rat(8, 10)) THEN 1 ELSE 0

xor_y1(x_1, x_2) ==
    IF \/ FLess(x_1, Rat(5, 10)) /\ FGreater(x_2, Rat(5, 10))
       \/ FGreater(x_1, Rat(5, 10)) /\ FLess(x_2, Rat(5, 10))
    THEN 1 ELSE 0

circle_y1(x_1, x_2) ==
    LET x1 == FSub(x_1, Rat(5, 10))
        x2 == FSub(x_2, Rat(5, 10))
    IN IF FGreater(FAdd(FMul(x1, x1), FMul(x2, x2)), Rat(1, 10)) THEN 1 ELSE 0

(***************************************************************************)
(* Spiral.                                                                 *)
(***************************************************************************)
\* x(t) = t * cos(t) / 20 and y(t) = t * sin(t) / 20, kept symbolic.
x(t) == [f |-> "x", t |-> t, plus |-> Float(0)]

y(t) == [f |-> "y", t |-> t, plus |-> Float(0)]

\* term + c
Plus(term, c) == [term EXCEPT !.plus = FAdd(@, c)]

\* A plausible slip: the index range starts at 0 instead of 5.
spiral_range_from0(N) == range(0, FloorHalf(N))

\* A plausible slip: the range's upper bound is inclusive.
spiral_range_inclusive(N) == range(5 + 0, 5 + FloorHalf(N) + 1)

\* The index range both comprehensions iterate over.
spiral_range(N) == range(5 + 0, 5 + FloorHalf(N))

spiral_X0(N) ==
    LET r == spiral_range(N)
    IN [k \in 1..Len(r) |->
          LET t == FMul(Float(10), FDiv(Float(r[k]), Float(FloorHalf(N))))
          IN <<Plus(x(t), Rat(5, 10)), Plus(y(t), Rat(5, 10))>>]

spiral_X1(N) ==
    LET r == spiral_range(N)
    IN [k \in 1..Len(r) |->
          LET t == FMul(Float(0 - 10), FDiv(Float(r[k]), Float(FloorHalf(N))))
          IN <<Plus(y(t), Rat(5, 10)), Plus(x(t), Rat(5, 10))>>]

\* A plausible slip: the second run of labels is rounded up to N - N // 2.
spiral_y2_roundup(N) ==
    Repeat(0, FloorHalf(N)) \o Repeat(1, N - FloorHalf(N))

spiral_y2(N) == Repeat(0, FloorHalf(N)) \o Repeat(1, FloorHalf(N))

(***************************************************************************)
(* The registry.                                                           *)
(***************************************************************************)
\* A plausible slip: two entries of the table are crossed.
Registry_crossed ==
    [Simple |-> "simple", Diag |-> "diag", Split |-> "split",
     Xor |-> "xor", Circle |-> "spiral", Spiral |-> "circle"]

Registry ==
    [Simple |-> "simple", Diag |-> "diag", Split |-> "split",
     Xor |-> "xor", Circle |-> "circle", Spiral |-> "spiral"]

\* Names a client may look up: the six keys and some that are not keys.
Names == DOMAIN Registry \cup {"Foo", "spiral"}

(***************************************************************************)
(* Outcomes of operations.  `last` is the outcome of the latest operation  *)
(* and `prev` the outcome of the one before, still held by the caller.     *)
(***************************************************************************)
Outcome(op, fn, key, arg, raised, graph, draws, seed) ==
    [op |-> op, fn |-> fn, key |-> key, arg |-> arg, raised |-> raised,
     graph |-> graph, draws |-> draws, seed |-> seed]

NoOutcome == Outcome("none", "none", "", 0, "none", NoGraph, <<>>, 0)

Init ==
    /\ datasets = Registry
    /\ rng \in Seeds
    /\ prev = NoOutcome
    /\ last = NoOutcome

\* An operation ends with `outcome`, leaving the source in `state`; the
\* caller still holds the outcome of the operation before.
Finish(outcome, state) ==
    /\ last' = outcome
    /\ prev' = last
    /\ rng' = state
    /\ UNCHANGED datasets

Returned(fn, N, g, draws) == Outcome("call", fn, "", N, "none", g, draws, rng)

Raised(fn, N, err) == Outcome("call", fn, "", N, err, NoGraph, <<>>, rng)

simple(N) ==
    LET pts == make_pts(N, rng)
        X == pts.X
        yy == [i \in 1..Len(X) |-> simple_y1(X[i][1], X[i][2])]
    IN Finish(Returned("simple", N, Graph(N, X, yy), pts.draws), pts.state)

diag(N) ==
    LET pts == make_pts(N, rng)
        X == pts.X
        yy == [i \in 1..Len(X) |-> diag_y1(X[i][1], X[i][2])]
    IN Finish(Returned("diag", N, Graph(N, X, yy), pts.draws), pts.state)

split(N) ==
    LET pts == make_pts(N, rng)
        X == pts.X
        yy == [i \in 1..Len(X) |-> split_y1(X[i][1], X[i][2])]
    IN Finish(Returned("split", N, Graph(N, X, yy), pts.draws), pts.state)

xor(N) ==
    LET pts == make_pts(N, rng)
        X == pts.X
        yy == [i \in 1..Len(X) |-> xor_y1(X[i][1], X[i][2])]
    IN Finish(Returned("xor", N, Graph(N, X, yy), pts.draws), pts.state)

circle(N) ==
    LET pts == make_pts(N, rng)
        X == pts.X
        yy == [i \in 1..Len(X) |-> circle_y1(X[i][1], X[i][2])]
    IN Finish(Returned("circle", N, Graph(N, X, yy), pts.draws), pts.state)

\* spiral draws nothing; a float division by zero while building X would
\* surface as ZeroDivisionError before any Graph is made.
spiral(N) ==
    LET X == spiral_X0(N) \o spiral_X1(N)
        y2 == spiral_y2(N)
        faulted == \E i \in 1..Len(X) : IsFault(X[i][1].t) \/ IsFault(X[i][2].t)
    IN Finish(IF faulted THEN Raised("spiral", N, "ZeroDivisionError")
              ELSE Returned("spiral", N, Graph(N, X, y2), <<>>),
              rng)

\* datasets[name]: the generator stored under the key, KeyError otherwise.
lookup(name) ==
    Finish(IF name \in DOMAIN datasets
           THEN Outcome("lookup", datasets[name], name, 0, "none",
                        NoGraph, <<>>, rng)
           ELSE Outcome("lookup", "none", name, 0, "KeyError",
                        NoGraph, <<>>, rng),
           rng)

\* The client re-seeds the source to the state it had before the latest
\* call, so that the next call is fed the same values again.
reseed ==
    /\ last.op = "call"
    /\ rng # last.seed
    /\ rng' = last.seed
    /\ UNCHANGED <<datasets, prev, last>>

Next ==
    \/ \E N \in Counts : simple(N)
    \/ \E N \in Counts : diag(N)
    \/ \E N \in Counts : split(N)
    \/ \E N \in Counts : xor(N)
    \/ \E N \in Counts : circle(N)
    \/ \E N \in SpiralCounts : spiral(N)
    \/ \E name \in Names : lookup(name)
    \/ reseed

Spec == Init /\ [][Next]_vars

(***************************************************************************)
(* Properties.                                                             *)
(***************************************************************************)
Sampled == {"simple", "diag", "split", "xor", "circle"}

SixNames == {"Simple", "Diag", "Split", "Xor", "Circle", "Spiral"}

\* A sampled coordinate in whole tenths.
InTenths(r) == (10 * r.num) \div r.den

\* The label each pattern's predicate gives point p, in tenths (and
\* hundredths for the squared distance).
PatternLabel(fn, p) ==
    LET x1 == InTenths(p[1])
        x2 == InTenths(p[2])
    IN CASE fn = "simple" -> IF x1 < 5 THEN 1 ELSE 0
         [] fn = "diag" -> IF x1 + x2 < 5 THEN 1 ELSE 0
         [] fn = "split" -> IF x1 < 2 \/ x1 > 8 THEN 1 ELSE 0
         [] fn = "xor" -> IF (x1 < 5 /\ x2 > 5) \/ (x1 > 5 /\ x2 < 5) THEN 1 ELSE 0
         [] fn = "circle" ->
              IF (x1 - 5) * (x1 - 5) + (x2 - 5) * (x2 - 5) > 10 THEN 1 ELSE 0

\* Point p lies exactly on a boundary of the pattern.
OnBoundary(fn, p) ==
    LET x1 == InTenths(p[1])
        x2 == InTenths(p[2])
    IN CASE fn = "simple" -> x1 = 5
         [] fn = "diag" -> x1 + x2 = 5
         [] fn = "split" -> x1 \in {2, 8}
         [] fn = "xor" -> x1 = 5 \/ x2 = 5
         [] fn = "circle" -> (x1 - 5) * (x1 - 5) + (x2 - 5) * (x2 - 5) = 10

ReturnedBy(o, fns) == o.op = "call" /\ o.fn \in fns /\ o.raised = "none"

\* C1: every dataset a generator returns has as many points as labels, and
\* that many is its count field N (spiral with an odd N included).
C1_LengthsEqualCount ==
    (last.op = "call" /\ last.raised = "none") =>
        /\ Len(last.graph.X) = Len(last.graph.y)
        /\ Len(last.graph.y) = last.graph.N

\* C2: simple, diag, split, xor and circle called with N >= 0 return exactly
\* N points and N labels, label i being the pattern's predicate applied to
\* point i; a point exactly on a boundary is labelled 0.
C2_SampledLabels ==
    (last.op = "call" /\ last.fn \in Sampled /\ last.arg >= 0) =>
        /\ last.raised = "none"
        /\ Len(last.graph.X) = last.arg
        /\ Len(last.graph.y) = last.arg
        /\ \A i \in 1..Len(last.graph.X) :
              /\ i \in DOMAIN last.graph.y
              /\ last.graph.y[i] = PatternLabel(last.fn, last.graph.X[i])
              /\ OnBoundary(last.fn, last.graph.X[i]) => last.graph.y[i] = 0

HasBoundaryAndOne(o) ==
    /\ \E i \in 1..Len(o.graph.X) :
          OnBoundary(o.fn, o.graph.X[i]) /\ o.graph.y[i] = 0
    /\ \E j \in 1..Len(o.graph.y) : o.graph.y[j] = 1

\* Two datasets of two points, each with a point on its pattern's boundary
\* labelled 0 and a point labelled 1.
C2_Witness ==
    /\ ReturnedBy(prev, {"xor", "split", "simple"})
    /\ ReturnedBy(last, {"circle", "diag"})
    /\ prev.arg = 2 /\ last.arg = 2
    /\ HasBoundaryAndOne(prev)
    /\ HasBoundaryAndOne(last)

\* C3: spiral called with N >= 2 returns 2*(N // 2) points and labels: the
\* N // 2 points of curve 0 labelled 0, then the N // 2 of curve 1 labelled 1.
C3_SpiralCountAndOrder ==
    (last.op = "call" /\ last.fn = "spiral" /\ last.arg >= 2) =>
        LET half == last.arg \div 2
        IN /\ last.raised = "none"
           /\ Len(last.graph.X) = 2 * half
           /\ Len(last.graph.y) = 2 * half
           /\ \A k \in 1..Len(last.graph.y) :
                 last.graph.y[k] = IF k <= half THEN 0 ELSE 1
           /\ \A k \in 1..Len(last.graph.X) :
                 IF k <= half
                 THEN last.graph.X[k][1].f = "x" /\ last.graph.X[k][1].t.num > 0
                 ELSE last.graph.X[k][1].f = "y" /\ last.graph.X[k][1].t.num < 0

\* spiral has returned for an odd N: one point fewer than asked for.
C3_Witness ==
    /\ ReturnedBy(last, {"spiral"})
    /\ last.arg >= 3
    /\ last.arg % 2 = 1
    /\ Len(last.graph.X) = last.arg - 1

\* C4: a generator called with N < 0 fails with InvalidCountError, and a
\* call either returns a fully valid dataset or fails.
C4_NegativeCountRejected ==
    last.op = "call" =>
        /\ last.arg < 0 => last.raised = "InvalidCountError"
        /\ \/ last.raised # "none"
           \/ /\ last.graph.N >= 0
              /\ Len(last.graph.X) = last.graph.N
              /\ Len(last.graph.y) = last.graph.N

\* C5 as stated: spiral called with N = 0 or N = 1 fails with
\* InvalidCountError.
C5_SpiralSmallCountRejected ==
    (last.op = "call" /\ last.fn = "spiral" /\ last.arg \in {0, 1}) =>
        last.raised = "InvalidCountError"

\* C5 as amended: spiral called with N = 0 or N = 1 does not fail, neither
\* with InvalidCountError nor with an arithmetic fault; it returns a dataset
\* with no points and no labels.
C5_SpiralSmallCountReturnsEmpty ==
    (last.op = "call" /\ last.fn = "spiral" /\ last.arg \in {0, 1}) =>
        /\ last.raised = "none"
        /\ last.graph.X = <<>>
        /\ last.graph.y = <<>>

\* spiral(0) and then spiral(1) have been called.
C5_Witness ==
    /\ prev.op = "call" /\ prev.fn = "spiral" /\ prev.arg = 0
    /\ last.op = "call" /\ last.fn = "spiral" /\ last.arg = 1

\* C6 as stated: the six names yield their generators, any other name
\* fails with UnknownPatternError.
C6_UnknownPatternError ==
    last.op = "lookup" =>
        IF last.key \in SixNames
        THEN last.raised = "none"
        ELSE last.raised = "UnknownPatternError"

\* C6 as amended: looking up one of the six names, matched exactly and case
\* sensitively, yields the matching generator; any other name fails with
\* KeyError.
C6_LookupExact ==
    last.op = "lookup" =>
        /\ last.key = "Simple" => last.raised = "none" /\ last.fn = "simple"
        /\ last.key = "Diag" => last.raised = "none" /\ last.fn = "diag"
        /\ last.key = "Split" => last.raised = "none" /\ last.fn = "split"
        /\ last.key = "Xor" => last.raised = "none" /\ last.fn = "xor"
        /\ last.key = "Circle" => last.raised = "none" /\ last.fn = "circle"
        /\ last.key = "Spiral" => last.raised = "none" /\ last.fn = "spiral"
        /\ last.key \notin SixNames =>
              last.raised = "KeyError" /\ last.fn = "none"

\* "Spiral" has been found and then "spiral" has not.
C6_Witness ==
    /\ prev.op = "lookup" /\ prev.key = "Spiral" /\ prev.fn = "spiral"
    /\ last.op = "lookup" /\ last.key = "spiral" /\ last.raised = "KeyError"

C8_SpiralPoints ==
    (last.op = "call" /\ last.fn = "spiral" /\ last.arg >= 2) =>
        LET half == last.arg \div 2
            X == last.graph.X
            IsHalf(r) == r.den > 0 /\ 2 * r.num = r.den
            IsT(r, sign, k) ==
                r.den > 0 /\ r.num * half = sign * 10 * (5 + k) * r.den
        IN /\ Len(X) = 2 * half
           /\ \A k \in 0..(half - 1) :
                 /\ X[k + 1][1].f = "x" /\ IsT(X[k + 1][1].t, 1, k)
                 /\ X[k + 1][2].f = "y" /\ IsT(X[k + 1][2].t, 1, k)
                 /\ IsHalf(X[k + 1][1].plus) /\ IsHalf(X[k + 1][2].plus)
                 /\ X[half + k + 1][1].f = "y"
                 /\ IsT(X[half + k + 1][1].t, 0 - 1, k)
                 /\ X[half + k + 1][2].f = "x"
                 /\ IsT(X[half + k + 1][2].t, 0 - 1, k)
                 /\ IsHalf(X[half + k + 1][1].plus)
                 /\ IsHalf(X[half + k + 1][2].plus)

\* spiral has returned two or more points per curve.
C8_Witness ==
    /\ ReturnedBy(last, {"spiral"})
    /\ last.arg \div 2 >= 2
    /\ Len(last.graph.X) = 2 * (last.arg \div 2)

\* The value at offset k (from 0) of the stream read from source state s.
StreamAt(s, k) == Rat(Stream[((s + k) % Len(Stream)) + 1], 10)

\* C9: a generator call changes neither the registry nor the dataset
\* returned by the call before; simple, diag, split, xor and circle with
\* N >= 0 consume exactly 2N draws, x1 then x2 of point 0, 1, ..., N-1, and
\* spiral consumes none.
C9_CallEffects ==
    [][(last'.op = "call" /\ last'.seed = rng) =>
          /\ datasets' = datasets
          /\ DOMAIN datasets' = SixNames
          /\ prev' = last
          /\ (last'.fn \in Sampled /\ last'.arg >= 0) =>
                /\ Len(last'.draws) = 2 * last'.arg
                /\ rng' = (rng + 2 * last'.arg) % Len(Stream)
                /\ \A k \in 1..Len(last'.draws) :
                      last'.draws[k] = StreamAt(rng, k - 1)
                /\ Len(last'.graph.X) = last'.arg
                /\ \A i \in 1..Len(last'.graph.X) :
                      /\ last'.graph.X[i][1] = StreamAt(rng, 2 * (i - 1))
                      /\ last'.graph.X[i][2] = StreamAt(rng, 2 * (i - 1) + 1)
          /\ last'.fn = "spiral" => last'.draws = <<>> /\ rng' = rng
      ]_vars

\* A sampled generator has returned two points after an earlier call
\* returned a dataset that the caller still holds.
C9_Witness ==
    /\ ReturnedBy(prev, Sampled)
    /\ Len(prev.graph.X) >= 1
    /\ ReturnedBy(last, Sampled)
    /\ last.arg = 2
    /\ Len(last.draws) = 4
    /\ rng = (last.seed + 4) % Len(Stream)
    /\ datasets = Registry

====
